---- MODULE Spec2Model ----
(***************************************************************************)
(* Wessaal Node layer: the relay from the Evolution socket to the webhook  *)
(* backend and to the front rooms.  The repository holds four variants of  *)
(* the same pipeline:                                                      *)
(*   "bridge"  src/bridge.js              handleEvent, retrying forwarder  *)
(*   "simple"  src/unnamed/part_003       handleEvent, one throwing POST   *)
(*   "index"   src/index.js + src/server.js   inline handlers, 2 tries     *)
(*   "deep"    src/unnamed/part_002       deep-logging variant             *)
(***************************************************************************)
EXTENDS Integers, Sequences, FiniteSets, TLC

(***************************************************************************)
(* JavaScript values.  A value is a record tagged by t; objects keep their *)
(* keys in iteration order.                                                *)
(***************************************************************************)
Undefined == [t |-> "undefined"]
Null == [t |-> "null"]
Bool(b) == [t |-> "boolean", b |-> b]
Num(n) == [t |-> "number", n |-> n]
Str(s) == [t |-> "string", s |-> s]
Obj(kv) == [t |-> "object", kv |-> kv]
Arr(es) == [t |-> "array", es |-> es]
KV(k, v) == [k |-> k, v |-> v]

\* ToBoolean
Truthy(v) ==
  CASE v.t = "undefined" -> FALSE
    [] v.t = "null" -> FALSE
    [] v.t = "boolean" -> v.b
    [] v.t = "number" -> v.n # 0
    [] v.t = "string" -> Len(v.s) > 0
    [] OTHER -> TRUE

\* a && b, a || b (the right operand is only used when it is evaluated)
And(a, b) == IF Truthy(a) THEN b ELSE a
Or(a, b) == IF Truthy(a) THEN a ELSE b

\* typeof v
TypeOf(v) ==
  CASE v.t = "null" -> "object"
    [] v.t = "array" -> "object"
    [] OTHER -> v.t

Nullish(v) == v.t \in {"undefined", "null"}

\* Object.keys(v) of an object, in iteration order
Keys(v) == [i \in 1..Len(v.kv) |-> v.kv[i].k]

HasKey(v, k) == v.t = "object" /\ \E i \in 1..Len(v.kv) : v.kv[i].k = k

\* v.k for a value that is not null or undefined (those throw a TypeError)
Get(v, k) ==
  IF HasKey(v, k)
  THEN v.kv[CHOOSE i \in 1..Len(v.kv) : v.kv[i].k = k].v
  ELSE Undefined

\* v?.k
OptGet(v, k) == IF Nullish(v) THEN Undefined ELSE Get(v, k)

Digit(d) == SubSeq("0123456789", d + 1, d + 1)

RECURSIVE NatStr(_)
NatStr(n) == IF n < 10 THEN Digit(n) ELSE NatStr(n \div 10) \o Digit(n % 10)

\* String(v), also the conversion of a template literal `${v}`
RECURSIVE JsString(_)
RECURSIVE JoinFrom(_, _)
JoinFrom(es, i) ==
  IF i > Len(es) THEN ""
  ELSE (IF i > 1 THEN "," ELSE "")
       \o (IF Nullish(es[i]) THEN "" ELSE JsString(es[i]))
       \o JoinFrom(es, i + 1)
JsString(v) ==
  CASE v.t = "undefined" -> "undefined"
    [] v.t = "null" -> "null"
    [] v.t = "boolean" -> (IF v.b THEN "true" ELSE "false")
    [] v.t = "number" -> (IF v.n < 0 THEN "-" \o NatStr(-v.n) ELSE NatStr(v.n))
    [] v.t = "string" -> v.s
    [] v.t = "array" -> JoinFrom(v.es, 1)
    [] OTHER -> "[object Object]"

(***************************************************************************)
(* Envelope normalizer                                                     *)
(***************************************************************************)
pickInstance_noDefault(payload) ==
  Or(Or(Or(Get(payload, "instance"), Get(payload, "instanceName")),
        OptGet(Get(payload, "data"), "instance")),
     Undefined)

pickInstance_nestedFirst(payload) ==
  Or(And(payload,
         Or(Or(OptGet(Get(payload, "data"), "instance"), Get(payload, "instanceName")),
            Get(payload, "instance"))),
     Str("unknown"))

\* bridge.js, index.js and part_003 share this text
pickInstance(payload) ==
  Or(And(payload,
         Or(Or(Get(payload, "instance"), Get(payload, "instanceName")),
            OptGet(Get(payload, "data"), "instance"))),
     Str("unknown"))

\* part_002 writes it with optional chaining
pickInstance_deep(payload) ==
  Or(Or(Or(OptGet(payload, "instance"), OptGet(payload, "instanceName")),
        OptGet(OptGet(payload, "data"), "instance")),
     Str("unknown"))

\* bridge.js and part_003: the payload is the body
formatEvent_bridge(eventName, payload, now) ==
  [version |-> "1.0",
   event |-> eventName,
   receivedAt |-> now,
   instance |-> pickInstance(payload),
   body |-> payload]

Min(a, b) == IF a <= b THEN a ELSE b

\* s.slice(0, n) of a string
StrSlice(s, n) == IF Len(s) <= n THEN s ELSE SubSeq(s, 1, n)

\* a.slice(0, n) of an array's elements
ArrSlice(es, n) == IF Len(es) <= n THEN es ELSE SubSeq(es, 1, n)

RECURSIVE IndexEntries(_, _)
\* the own enumerable entries "0", "1", ... of an array
IndexEntries(es, i) ==
  IF i > Len(es) THEN <<>>
  ELSE <<KV(NatStr(i - 1), es[i])>> \o IndexEntries(es, i + 1)

RECURSIVE CharEntries(_, _)
\* the own enumerable entries of a string: one per character
CharEntries(s, i) ==
  IF i > Len(s) THEN <<>>
  ELSE <<KV(NatStr(i - 1), Str(SubSeq(s, i, i)))>> \o CharEntries(s, i + 1)

\* the pairs [k, p[k]] for k in Object.keys(p), in iteration order
Entries(p) ==
  CASE p.t = "object" -> p.kv
    [] p.t = "array" -> IndexEntries(p.es, 1)
    [] p.t = "string" -> CharEntries(p.s, 1)
    [] OTHER -> <<>>

RECURSIVE JSONstringify(_)
RECURSIVE JsonMembers(_, _, _)
RECURSIVE JsonElements(_, _)
\* the members of an object; a member whose value is undefined is left out
JsonMembers(kv, i, first) ==
  IF i > Len(kv) THEN ""
  ELSE IF kv[i].v.t = "undefined" THEN JsonMembers(kv, i + 1, first)
  ELSE (IF first THEN "" ELSE ",")
       \o "\"" \o kv[i].k \o "\":" \o JSONstringify(kv[i].v).s
       \o JsonMembers(kv, i + 1, FALSE)
\* the elements of an array; undefined is written null
JsonElements(es, i) ==
  IF i > Len(es) THEN ""
  ELSE (IF i > 1 THEN "," ELSE "")
       \o (IF es[i].t = "undefined" THEN "null" ELSE JSONstringify(es[i]).s)
       \o JsonElements(es, i + 1)
\* JSON.stringify(v): a string, or undefined for undefined
JSONstringify(v) ==
  CASE v.t = "undefined" -> Undefined
    [] v.t = "null" -> Str("null")
    [] v.t = "boolean" -> Str(JsString(v))
    [] v.t = "number" -> Str(JsString(v))
    [] v.t = "string" -> Str("\"" \o v.s \o "\"")
    [] v.t = "array" -> Str("[" \o JsonElements(v.es, 1) \o "]")
    [] OTHER -> Str("{" \o JsonMembers(v.kv, 1, TRUE) \o "}")

(***************************************************************************)
(* Configuration read from the environment at start-up, and the variant    *)
(* of the pipeline that is running.                                        *)
(***************************************************************************)
VARIABLES
  variant,      \* "bridge", "simple", "index" or "deep"
  config        \* the environment-derived module constants

BACKEND_URL == config.BACKEND_URL
FORWARD_RETRIES == config.FORWARD_RETRIES
FORWARD_EVENTS == config.FORWARD_EVENTS
INCLUDE_RAW == config.INCLUDE_RAW
RAW_MAX == config.RAW_MAX
\* index.js and part_002 parse EVENTS as well
EVENTS == config.EVENTS

(***************************************************************************)
(* formatEvent of index.js                                                 *)
(***************************************************************************)
SNIPPET_MAX == 256
MAX_PHONES == 3
MAX_EMAILS == 2
GENERIC_KEYS == 6
GENERIC_STR_LIMIT == 512
GENERIC_STR_KEEP == 128
GENERIC_ARR_KEEP == 3
RAW_MAX_DEFAULT == 512

\* the text of the TypeError raised by reading a property of null or undefined
TypeErrorText(v, k) ==
  "TypeError: Cannot read properties of " \o JsString(v) \o " (reading '" \o k \o "')"

safeStringify(obj, maxLen) ==
  LET s == JSONstringify(obj) IN
  IF s.t = "undefined"
  THEN \* s.length throws; the catch falls back to String(obj).slice(0, maxLen)
       Str(StrSlice(JsString(obj), maxLen))
  ELSE IF Len(s.s) > maxLen
       THEN Str(StrSlice(s.s, maxLen) \o "...<truncated>")
       ELSE s

\* m.attachments.map((a) => ({type: a.type, ...})) throws on a null element
extractMessageThrows(m) ==
  /\ Truthy(m)
  /\ Get(m, "attachments").t = "array"
  /\ \E i \in 1..Len(Get(m, "attachments").es) : Nullish(Get(m, "attachments").es[i])

extractMessageError(m) ==
  LET es == Get(m, "attachments").es
      i == CHOOSE j \in 1..Len(es) :
             Nullish(es[j]) /\ \A h \in 1..(j - 1) : ~Nullish(es[h])
  IN TypeErrorText(es[i], "type")

extractMessage(m) ==
  IF ~Truthy(m) THEN Null
  ELSE
    LET id == Or(Or(Or(Get(m, "id"), Get(m, "_id")), Get(m, "messageId")), Null)
        from == Or(Or(Or(Get(m, "from"), Get(m, "author")), Get(m, "sender")), Null)
        to == Or(Or(Get(m, "to"), Get(m, "recipients")), Null)
        content == Get(m, "content")
        text == Or(Or(Or(Get(m, "text"), Get(m, "body")),
                      And(content, Or(Get(content, "text"), Get(content, "body")))),
                   Null)
        ts == Or(Or(Or(Get(m, "timestamp"), Get(m, "ts")), Get(m, "createdAt")), Null)
        att == Get(m, "attachments")
        attachments ==
          IF att.t = "array"
          THEN [i \in 1..Len(att.es) |->
                  Obj(<<KV("type", Get(att.es[i], "type")),
                        KV("url", Get(att.es[i], "url")),
                        KV("name", Get(att.es[i], "name"))>>)]
          ELSE IF Truthy(att) THEN <<Str("<unknown-attachments>")>>
          ELSE <<>>
    IN Obj(<<KV("id", id), KV("from", from), KV("to", to), KV("text", text),
             KV("ts", ts), KV("attachmentsCount", Num(Len(attachments))),
             KV("attachments", Arr(attachments))>>)

\* [].concat(x): an array argument is spread, any other value is appended
Concat(x) == IF x.t = "array" THEN x.es ELSE <<x>>

\* es.filter(Boolean)
FilterTruthy(es) == SelectSeq(es, Truthy)

extractContact(c) ==
  IF ~Truthy(c) THEN Null
  ELSE Obj(<<
    KV("id", Or(Or(Or(Get(c, "id"), Get(c, "_id")), Get(c, "contactId")), Null)),
    KV("name", Or(Or(Or(Get(c, "name"), Get(c, "fullName")), Get(c, "displayName")), Null)),
    KV("phones", Arr(FilterTruthy(Concat(Or(Or(Get(c, "phone"), Get(c, "phones")), Arr(<<>>)))))),
    KV("emails", Arr(FilterTruthy(Concat(Or(Or(Get(c, "email"), Get(c, "emails")), Arr(<<>>))))))>>)

\* one value of the generic body, size-capped
genericValue(v) ==
  IF v.t = "string" /\ Len(v.s) > GENERIC_STR_LIMIT
  THEN Str(StrSlice(v.s, GENERIC_STR_KEEP) \o "...")
  ELSE IF v.t = "array" THEN Arr(ArrSlice(v.es, GENERIC_ARR_KEEP))
  ELSE IF v.t = "object" THEN Str("<object>")
  ELSE v

genericBody(p) ==
  IF ~Truthy(p) THEN Null
  ELSE LET keys == ArrSlice(Entries(p), GENERIC_KEYS)
       IN Obj([i \in 1..Len(keys) |-> KV(keys[i].k, genericValue(keys[i].v))])

envelope0_stamped(eventName, payload, now) ==
  [version |-> "1.0",
   event |-> eventName,
   receivedAt |-> now,
   instance |-> pickInstance(payload),
   id |-> Num(now),
   type |-> Null,
   actor |-> Null,
   body |-> Null,
   meta |-> Obj(<<>>),
   raw |-> Undefined]

\* the envelope before the switch
envelope0(eventName, payload, now) ==
  [version |-> "1.0",
   event |-> eventName,
   receivedAt |-> now,
   instance |-> pickInstance(payload),
   id |-> Null,
   type |-> Null,
   actor |-> Null,
   body |-> Null,
   meta |-> Obj(<<>>),
   raw |-> Undefined]      \* undefined: the envelope has no raw key

withRaw(envelope, payload) ==
  IF INCLUDE_RAW THEN [envelope EXCEPT !.raw = safeStringify(payload, RAW_MAX)]
  ELSE envelope

case_messages_upsert_noCut(envelope, payload) ==
  LET msg == Or(OptGet(payload, "message"), payload)
      m == extractMessage(msg)
  IN withRaw([envelope EXCEPT
       !.id = Or(OptGet(m, "id"), Null),
       !.type = Str("message"),
       !.actor = Or(OptGet(m, "from"), Null),
       !.body = Obj(<<
          KV("id", Or(OptGet(m, "id"), Null)),
          KV("from", Or(OptGet(m, "from"), Null)),
          KV("snippet", Or(And(OptGet(m, "text"), Str(JsString(OptGet(m, "text")))), Null)),
          KV("timestamp", Or(OptGet(m, "ts"), Null)),
          KV("attachmentsCount", Or(OptGet(m, "attachmentsCount"), Num(0)))>>)],
     payload)

case_messages_upsert(envelope, payload) ==
  LET msg == Or(OptGet(payload, "message"), payload)
      m == extractMessage(msg)
  IN withRaw([envelope EXCEPT
       !.id = Or(OptGet(m, "id"), Null),
       !.type = Str("message"),
       !.actor = Or(OptGet(m, "from"), Null),
       !.body = Obj(<<
          KV("id", Or(OptGet(m, "id"), Null)),
          KV("from", Or(OptGet(m, "from"), Null)),
          KV("snippet", Or(And(OptGet(m, "text"),
                               Str(StrSlice(JsString(OptGet(m, "text")), SNIPPET_MAX))),
                           Null)),
          KV("timestamp", Or(OptGet(m, "ts"), Null)),
          KV("attachmentsCount", Or(OptGet(m, "attachmentsCount"), Num(0)))>>)],
     payload)

case_contacts_update_swapped(envelope, payload) ==
  LET contact == Or(OptGet(payload, "contact"), payload)
      c == extractContact(contact)
  IN withRaw([envelope EXCEPT
       !.id = Or(OptGet(c, "id"), Null),
       !.type = Str("contact"),
       !.body = Obj(<<
          KV("id", Or(OptGet(c, "id"), Null)),
          KV("name", Or(OptGet(c, "name"), Null)),
          KV("phones", Arr(ArrSlice(Or(OptGet(c, "phones"), Arr(<<>>)).es, MAX_EMAILS))),
          KV("emails", Arr(ArrSlice(Or(OptGet(c, "emails"), Arr(<<>>)).es, MAX_PHONES)))>>)],
     payload)

case_contacts_update(envelope, payload) ==
  LET contact == Or(OptGet(payload, "contact"), payload)
      c == extractContact(contact)
  IN withRaw([envelope EXCEPT
       !.id = Or(OptGet(c, "id"), Null),
       !.type = Str("contact"),
       !.body = Obj(<<
          KV("id", Or(OptGet(c, "id"), Null)),
          KV("name", Or(OptGet(c, "name"), Null)),
          KV("phones", Arr(ArrSlice(Or(OptGet(c, "phones"), Arr(<<>>)).es, MAX_PHONES))),
          KV("emails", Arr(ArrSlice(Or(OptGet(c, "emails"), Arr(<<>>)).es, MAX_EMAILS)))>>)],
     payload)

case_chats_update(envelope, payload) ==
  LET chat == Or(OptGet(payload, "chat"), payload)
      id == Or(Or(OptGet(chat, "id"), OptGet(chat, "_id")), Null)
      participants == OptGet(chat, "participants")
  IN withRaw([envelope EXCEPT
       !.id = id,
       !.type = Str("chat"),
       !.body = Obj(<<
          KV("id", id),
          KV("title", Or(Or(OptGet(chat, "title"), OptGet(chat, "name")), Null)),
          KV("participantsCount",
             IF participants.t = "array" THEN Num(Len(participants.es)) ELSE Null)>>)],
     payload)

case_default(envelope, payload) ==
  withRaw([envelope EXCEPT
       !.type = IF TypeOf(payload) = "object" /\ payload.t # "null"
                THEN Or(Or(Get(payload, "type"), Get(payload, "eventType")), Str("generic"))
                ELSE Str(TypeOf(payload)),
       !.body = genericBody(payload)],
     payload)

case_qrcode_updated(envelope, payload) ==
  [envelope EXCEPT
     !.type = Str("qrcode"),
     !.body = payload,
     !.raw = JSONstringify(payload)]

case_connection_update_trimmed(envelope, payload) ==
  [envelope EXCEPT
     !.type = Str("connection"),
     !.body = genericBody(payload),
     !.raw = JSONstringify(payload)]

case_connection_update(envelope, payload) ==
  [envelope EXCEPT
     !.type = Str("connection"),
     !.body = payload,
     !.raw = JSONstringify(payload)]

normalization_failed_deep(envelope, text) ==
  [envelope EXCEPT !.meta = Obj(<<KV("error", Str(text))>>)]

\* the catch block of formatEvent
normalization_failed(envelope, text) ==
  [envelope EXCEPT
     !.body = Null,
     !.meta = Obj(<<KV("error", Str("normalization_failed")),
                    KV("normalizationError", Str(text))>>)]

\* index.js: the switch; the default clause has no break and runs on into
\* the qrcode.updated clause that follows it
formatEvent(eventName, payload, now) ==
  LET envelope == envelope0(eventName, payload, now)
      msg == Or(OptGet(payload, "message"), payload)
  IN CASE eventName = "messages.upsert" ->
            IF extractMessageThrows(msg)
            THEN normalization_failed(envelope, extractMessageError(msg))
            ELSE case_messages_upsert(envelope, payload)
       [] eventName = "contacts.update" -> case_contacts_update(envelope, payload)
       [] eventName = "chats.update" -> case_chats_update(envelope, payload)
       [] eventName = "qrcode.updated" -> case_qrcode_updated(envelope, payload)
       [] eventName = "connection.update" -> case_connection_update(envelope, payload)
       [] OTHER -> case_qrcode_updated(case_default(envelope, payload), payload)

(***************************************************************************)
(* formatEvent of part_002 (deep-logging variant)                          *)
(***************************************************************************)
safeStringify_deep(obj, maxLen) ==
  LET s == JSONstringify(obj) IN
  IF s.t = "undefined" THEN Str("<unserializable>")
  ELSE IF Len(s.s) > maxLen
       THEN Str(StrSlice(s.s, maxLen) \o "...<truncated>")
       ELSE s

extractMessage_deep(m) ==
  IF ~Truthy(m) THEN Null
  ELSE
    LET content == Get(m, "content")
        att == Get(m, "attachments")
    IN Obj(<<
      KV("id", Or(Or(Or(Get(m, "id"), Get(m, "_id")), Get(m, "messageId")), Null)),
      KV("from", Or(Or(Or(Get(m, "from"), Get(m, "author")), Get(m, "sender")), Null)),
      KV("text", Or(Or(Or(Get(m, "text"), Get(m, "body")),
                       And(content, Or(Get(content, "text"), Get(content, "body")))),
                    Null)),
      KV("ts", Or(Or(Or(Get(m, "timestamp"), Get(m, "ts")), Get(m, "createdAt")), Null)),
      KV("attachmentsCount", Num(IF att.t = "array" THEN Len(att.es) ELSE 0))>>)

RECURSIVE BeforeDot(_, _)
\* s.split(".")[0]
BeforeDot(s, i) ==
  IF i > Len(s) \/ SubSeq(s, i, i) = "." THEN ""
  ELSE SubSeq(s, i, i) \o BeforeDot(s, i + 1)

withRaw_deep(envelope, payload) ==
  IF INCLUDE_RAW THEN [envelope EXCEPT !.raw = safeStringify_deep(payload, RAW_MAX)]
  ELSE envelope

formatEvent_deep(eventName, payload, now) ==
  LET envelope == [envelope0(eventName, payload, now) EXCEPT
                     !.instance = pickInstance_deep(payload)]
      m == extractMessage_deep(Or(OptGet(payload, "message"), payload))
  IN CASE eventName = "messages.upsert" ->
            withRaw_deep([envelope EXCEPT
                !.id = OptGet(m, "id"),
                !.type = Str("message"),
                !.actor = OptGet(m, "from"),
                !.body = IF Nullish(m) THEN Obj(<<>>) ELSE m],
              payload)
       [] eventName \in {"qrcode.updated", "connection.update"} ->
            [envelope EXCEPT
                !.type = Str(BeforeDot(eventName, 1)),
                !.body = payload,
                !.raw = JSONstringify(payload)]
       [] OTHER ->
            withRaw_deep([envelope EXCEPT
                !.type = Str("generic"),
                !.body = payload],
              payload)

(***************************************************************************)
(* State of the running relay                                              *)
(***************************************************************************)
VARIABLES
  now,          \* the clock read by new Date()
  handlers,     \* listeners registered on the Evolution socket
  members,      \* front socket -> the rooms it has joined
  joinCount,    \* join requests handled so far
  lastJoin,     \* the join request handled by the last step, with its acknowledgement
  observed,     \* upstream events emitted so far: [name, args]
  tasks,        \* one record per running or finished handler invocation
  emits,        \* ioFront.to(room).emit calls so far, with their receivers
  source,       \* the events the Evolution server may emit: [name, args]
  backend,      \* the statuses the backend may answer (NoResponse: unreachable)
  proc,         \* the process: its sockets, its signal handlers, its exit
  nIn,          \* formatEvent applied on its own: the input
  nOut          \* formatEvent applied on its own: variant -> envelope

vars == <<variant, config, now, handlers, members, joinCount, lastJoin,
          observed, tasks, emits, source, backend, proc, nIn, nOut>>

\* bounds of the model
MaxEvents == 2
MaxTasks == 2
MaxJoins == 2
MaxRetries == 3

Clients == {"c1", "c2"}
Variants == {"bridge", "simple", "index", "deep"}
None == [t |-> "none"]

(***************************************************************************)
(* Front socket server                                                     *)
(***************************************************************************)
\* `inst:${instance}`
RoomOf(instance) == "inst:" \o JsString(instance)

\* the sockets in a room of the adapter
RoomMembers(room) == {c \in Clients : room \in members[c]}

join_instance_noCheck(c, instance, joinThrows) ==
  [members |-> [members EXCEPT ![c] = @ \cup {RoomOf(instance)}],
   ack |-> [ok |-> TRUE, room |-> RoomOf(instance)]]

\* socket.on("join_instance", ({ instance }, cb) => ...) of bridge.js,
\* part_003 and part_002: the membership after the request and the
\* acknowledgement passed to cb
join_instance(c, instance, joinThrows) ==
  IF ~Truthy(instance)
  THEN [members |-> members, ack |-> [ok |-> FALSE, error |-> "missing_instance"]]
  ELSE IF joinThrows
  THEN [members |-> members, ack |-> [ok |-> FALSE, error |-> "Error: join failed"]]
  ELSE [members |-> [members EXCEPT ![c] = @ \cup {RoomOf(instance)}],
        ack |-> [ok |-> TRUE, room |-> RoomOf(instance)]]

\* socket.on("subscribe", ({ instance }) => ...) of server.js: no acknowledgement
subscribe(c, instance) ==
  IF ~Truthy(instance)
  THEN [members |-> members, ack |-> None]
  ELSE [members |-> [members EXCEPT ![c] = @ \cup {RoomOf(instance)}], ack |-> None]

emitToFront_broadcast(formatted) ==
  <<[room |-> RoomOf(formatted.instance), env |-> formatted, to |-> Clients]>>

emitToFront_twice(formatted) ==
  LET e == [room |-> RoomOf(formatted.instance), env |-> formatted,
            to |-> RoomMembers(RoomOf(formatted.instance))]
  IN <<e, e>>

\* bridge.js and part_003: the emits performed, each with its receivers
emitToFront(formatted) ==
  <<[room |-> RoomOf(formatted.instance),
     env |-> formatted,
     to |-> RoomMembers(RoomOf(formatted.instance))]>>

emitToInstance_broadcast(formatted) ==
  LET inst == Or(formatted.instance, Str("unknown")) IN
  <<[room |-> RoomOf(inst), env |-> formatted, to |-> Clients]>>

\* server.js, used by index.js
emitToInstance(formatted) ==
  LET inst == Or(formatted.instance, Str("unknown")) IN
  <<[room |-> RoomOf(inst), env |-> formatted, to |-> RoomMembers(RoomOf(inst))]>>

emitToInstance_deep_noCheck(formatted) ==
  LET inst == Or(formatted.instance, Str("unknown")) IN
  <<[room |-> RoomOf(inst), env |-> formatted, to |-> RoomMembers(RoomOf(inst))]>>

\* part_002: emits only when the room has a listener
emitToInstance_deep(formatted) ==
  LET inst == Or(formatted.instance, Str("unknown"))
      room == RoomOf(inst)
      activeListeners == Cardinality(RoomMembers(room))
  IN IF activeListeners > 0
     THEN <<[room |-> room, env |-> formatted, to |-> RoomMembers(room)]>>
     ELSE <<>>

(***************************************************************************)
(* Backend forwarder.  A task is one invocation of an event handler:       *)
(*   pc        "post" (a POST is in flight), "backoff" (the retry timer    *)
(*             runs), "returned"/"threw" (sendToBackend is over), "done"   *)
(*   attempt   the loop variable of sendToBackend                          *)
(*   posts     the envelopes POSTed so far                                 *)
(*   responses the status of each settled POST (0: no response)            *)
(*   delays    the backoff delays taken, in ms                             *)
(*   fwd       how sendToBackend ended: "returned" or "threw"              *)
(*   publishes how often the publish step ran to its end                   *)
(*   escaped   an error left the handler: its promise was rejected and     *)
(*             nothing handles the rejection                               *)
(***************************************************************************)
NoResponse == 0
maxTries == 2
BACKOFF_BASE_MS == 1000
FORWARD_RETRIES_DEFAULT == 3

\* attempt < FORWARD_RETRIES and attempt >= FORWARD_RETRIES; both are false for NaN
LtRetries(attempt) == ~FORWARD_RETRIES.nan /\ attempt < FORWARD_RETRIES.n
GeRetries(attempt) == ~FORWARD_RETRIES.nan /\ attempt >= FORWARD_RETRIES.n

\* validateStatus: (s) => s >= 200 && s < 500 of bridge.js
validateStatus(s) == s >= 200 /\ s < 500
\* axios' default validateStatus
validateStatus_default(s) == s >= 200 /\ s < 300

post_restamped(t) ==
  [t EXCEPT !.pc = "post", !.posts = Append(@, [t.env EXCEPT !.receivedAt = now])]

\* axios.post(BACKEND_URL, formatted, ...): the request body is the envelope
post(t) == [t EXCEPT !.pc = "post", !.posts = Append(@, t.env)]

sendToBackend_enter_noUrlCheck(t) ==
  IF LtRetries(0) THEN post([t EXCEPT !.attempt = 0])
  ELSE [t EXCEPT !.attempt = 0, !.pc = "returned"]

\* bridge.js sendToBackend, up to the first await
sendToBackend_enter(t) ==
  IF BACKEND_URL = "" THEN [t EXCEPT !.pc = "returned"]
  ELSE IF LtRetries(0) THEN post([t EXCEPT !.attempt = 0])
  ELSE [t EXCEPT !.attempt = 0, !.pc = "returned"]

sendToBackend_settle_retry4xx(t, status) ==
  LET r == [t EXCEPT !.responses = Append(@, status)] IN
  IF status # NoResponse /\ validateStatus_default(status)
  THEN [r EXCEPT !.pc = "returned"]
  ELSE LET attempt == t.attempt + 1 IN
       IF GeRetries(attempt)
       THEN [r EXCEPT !.attempt = attempt, !.pc = "returned"]
       ELSE [r EXCEPT !.attempt = attempt, !.pc = "backoff",
                      !.delays = Append(@, BACKOFF_BASE_MS * attempt)]

sendToBackend_settle_flat(t, status) ==
  LET r == [t EXCEPT !.responses = Append(@, status)] IN
  IF status # NoResponse /\ validateStatus(status)
  THEN [r EXCEPT !.pc = "returned"]
  ELSE LET attempt == t.attempt + 1 IN
       IF GeRetries(attempt)
       THEN [r EXCEPT !.attempt = attempt, !.pc = "returned"]
       ELSE [r EXCEPT !.attempt = attempt, !.pc = "backoff",
                      !.delays = Append(@, BACKOFF_BASE_MS)]

sendToBackend_settle_giveUp(t, status) ==
  LET r == [t EXCEPT !.responses = Append(@, status)] IN
  IF status # NoResponse /\ validateStatus(status)
  THEN [r EXCEPT !.pc = "returned"]
  ELSE [r EXCEPT !.attempt = t.attempt + 1, !.pc = "returned"]

\* bridge.js sendToBackend: the awaited POST settles with a status, or with
\* no response (network error, timeout)
sendToBackend_settle(t, status) ==
  LET r == [t EXCEPT !.responses = Append(@, status)] IN
  IF status # NoResponse /\ validateStatus(status)
  THEN [r EXCEPT !.pc = "returned"]
  ELSE LET attempt == t.attempt + 1 IN
       IF GeRetries(attempt)
       THEN [r EXCEPT !.attempt = attempt, !.pc = "returned"]
       ELSE [r EXCEPT !.attempt = attempt, !.pc = "backoff",
                      !.delays = Append(@, BACKOFF_BASE_MS * attempt)]

\* bridge.js sendToBackend: the backoff timer fires and the loop goes round
sendToBackend_wake(t) ==
  IF LtRetries(t.attempt) THEN post(t) ELSE [t EXCEPT !.pc = "returned"]

\* part_003 sendToBackend: one POST, whose rejection is not caught here
sendToBackend_simple_enter(t) ==
  IF BACKEND_URL = "" THEN [t EXCEPT !.pc = "returned"] ELSE post(t)

sendToBackend_simple_settle(t, status) ==
  LET r == [t EXCEPT !.responses = Append(@, status)] IN
  IF status # NoResponse /\ validateStatus_default(status)
  THEN [r EXCEPT !.pc = "returned"]
  ELSE [r EXCEPT !.pc = "threw"]

\* index.js sendToBackend: for (attempt = 1; attempt <= maxTries; attempt++)
sendToBackend_index_enter(t) ==
  IF BACKEND_URL = "" THEN [t EXCEPT !.pc = "returned"]
  ELSE post([t EXCEPT !.attempt = 1])

sendToBackend_index_settle(t, status) ==
  LET r == [t EXCEPT !.responses = Append(@, status)] IN
  IF status # NoResponse /\ validateStatus_default(status)
  THEN [r EXCEPT !.pc = "returned"]
  ELSE IF t.attempt < maxTries
       THEN [r EXCEPT !.pc = "backoff",
                      !.delays = Append(@, BACKOFF_BASE_MS * t.attempt)]
       ELSE [r EXCEPT !.attempt = t.attempt + 1, !.pc = "returned"]

sendToBackend_index_wake(t) ==
  IF t.attempt + 1 <= maxTries THEN post([t EXCEPT !.attempt = t.attempt + 1])
  ELSE [t EXCEPT !.attempt = t.attempt + 1, !.pc = "returned"]

\* part_002 sendToBackend: one POST inside try/catch
sendToBackend_deep_enter(t) ==
  IF BACKEND_URL = "" THEN [t EXCEPT !.pc = "returned"] ELSE post(t)

sendToBackend_deep_settle(t, status) ==
  [t EXCEPT !.responses = Append(@, status), !.pc = "returned"]

(***************************************************************************)
(* Dispatcher                                                              *)
(***************************************************************************)
\* ioFront.to(room).emit(...) is called and the fan-out server fails in it
emitThrows(es) == proc.front = "broken" /\ es # <<>>

Tagged(id, es) == [i \in 1..Len(es) |-> [task |-> id] @@ es[i]]

handleEvent_finish_rethrow(t) ==
  IF t.pc = "threw"
  THEN [task |-> [t EXCEPT !.pc = "done"], emits |-> <<>>]
  ELSE [task |-> [t EXCEPT !.pc = "done", !.publishes = @ + 1],
        emits |-> Tagged(t.id, emitToFront(t.env))]

\* bridge.js and part_003 handleEvent, after the awaited sendToBackend: a
\* rejection is caught and logged, then emitToFront runs outside the try
\* block; what it throws rejects the promise of handleEvent, which no caller
\* handles
handleEvent_finish(t) ==
  IF emitThrows(emitToFront(t.env))
  THEN [task |-> [t EXCEPT !.pc = "done", !.escaped = TRUE], emits |-> <<>>]
  ELSE [task |-> [t EXCEPT !.pc = "done", !.publishes = @ + 1],
        emits |-> Tagged(t.id, emitToFront(t.env))]

handler_index_finish_dropDegraded(t) ==
  IF t.pc = "threw" \/ Get(t.env.meta, "error") # Undefined
  THEN [task |-> [t EXCEPT !.pc = "done"], emits |-> <<>>]
  ELSE [task |-> [t EXCEPT !.pc = "done", !.publishes = @ + 1],
        emits |-> Tagged(t.id, emitToInstance(t.env))]

\* index.js handlers: sendToBackend and emitToInstance share one try block,
\* whose catch logs the error
handler_index_finish(t) ==
  IF t.pc = "threw" \/ emitThrows(emitToInstance(t.env))
  THEN [task |-> [t EXCEPT !.pc = "done"], emits |-> <<>>]
  ELSE [task |-> [t EXCEPT !.pc = "done", !.publishes = @ + 1],
        emits |-> Tagged(t.id, emitToInstance(t.env))]

\* part_002 handlers: no try block
handler_deep_finish(t) ==
  IF t.pc = "threw" \/ emitThrows(emitToInstance_deep(t.env))
  THEN [task |-> [t EXCEPT !.pc = "done", !.escaped = TRUE], emits |-> <<>>]
  ELSE [task |-> [t EXCEPT !.pc = "done", !.publishes = @ + 1],
        emits |-> Tagged(t.id, emitToInstance_deep(t.env))]

Format(eventName, payload, t) ==
  CASE variant \in {"bridge", "simple"} -> formatEvent_bridge(eventName, payload, t)
    [] variant = "index" -> formatEvent(eventName, payload, t)
    [] OTHER -> formatEvent_deep(eventName, payload, t)

Enter(t) ==
  CASE variant = "bridge" -> sendToBackend_enter(t)
    [] variant = "simple" -> sendToBackend_simple_enter(t)
    [] variant = "index" -> sendToBackend_index_enter(t)
    [] OTHER -> sendToBackend_deep_enter(t)

Settle(t, status) ==
  CASE variant = "bridge" -> sendToBackend_settle(t, status)
    [] variant = "simple" -> sendToBackend_simple_settle(t, status)
    [] variant = "index" -> sendToBackend_index_settle(t, status)
    [] OTHER -> sendToBackend_deep_settle(t, status)

Wake(t) ==
  CASE variant = "bridge" -> sendToBackend_wake(t)
    [] OTHER -> sendToBackend_index_wake(t)

Finish(t) ==
  CASE variant \in {"bridge", "simple"} -> handleEvent_finish(t)
    [] variant = "index" -> handler_index_finish(t)
    [] OTHER -> handler_deep_finish(t)

Advance_noAwait(t) ==
  Finish([t EXCEPT !.fwd = t.pc])

\* run the handler on until its next await
Advance(t) ==
  IF t.pc \in {"returned", "threw"} THEN Finish([t EXCEPT !.fwd = t.pc])
  ELSE [task |-> t, emits |-> <<>>]

Subscribe_both(events) ==
  [named |-> events, any |-> TRUE]

\* the listeners registered at start-up: one per entry of FORWARD_EVENTS, or
\* a single onAny listener when the list is empty
Subscribe(events) ==
  IF Len(events) > 0
  THEN [named |-> events, any |-> FALSE]
  ELSE [named |-> <<>>, any |-> TRUE]

\* the listeners called for an upstream event, in call order
HandlersFor(name) ==
  (IF handlers.any THEN <<"any">> ELSE <<>>)
  \o [i \in 1..Len(SelectSeq(handlers.named, LAMBDA e : e = name)) |-> "on"]

\* what a listener receives: socket.on passes the first argument,
\* onAny builds  args.length === 1 ? args[0] : args
PayloadOf(kind, args) ==
  IF kind = "any"
  THEN (IF Len(args) = 1 THEN args[1] ELSE Arr(args))
  ELSE (IF Len(args) >= 1 THEN args[1] ELSE Undefined)

NewTask(id, ev, kind, name, args, t) ==
  [id |-> id, ev |-> ev, kind |-> kind,
   env |-> Format(name, PayloadOf(kind, args), t),
   pc |-> "start", attempt |-> 0, posts |-> <<>>, responses |-> <<>>,
   delays |-> <<>>, fwd |-> "pending", publishes |-> 0, escaped |-> FALSE]

RECURSIVE FlattenEmits(_, _)
FlattenEmits(started, i) ==
  IF i > Len(started) THEN <<>>
  ELSE started[i].emits \o FlattenEmits(started, i + 1)

(***************************************************************************)
(* Inputs                                                                  *)
(***************************************************************************)
pA == Obj(<<KV("instance", Str("a")), KV("qr", Str("x"))>>)
pB == Obj(<<KV("data", Obj(<<KV("instance", Str("b"))>>))>>)
pNone == Obj(<<KV("qr", Str("x"))>>)
pC == Obj(<<KV("state", Str("open")), KV("instance", Str("b")),
            KV("info", Obj(<<KV("reason", Num(0))>>))>>)

\* a message that extractMessage of index.js cannot map: an attachment is null
pM == Obj(<<KV("instance", Str("a")), KV("id", Str("m3")),
            KV("attachments", Arr(<<Obj(<<>>), Null>>))>>)

Event(name, args) == [name |-> name, args |-> args]

\* FORWARD_EVENTS after split/trim/filter
EventLists ==
  {<<>>, <<"qrcode.updated">>, <<"messages.upsert", "qrcode.updated">>,
   <<"qrcode.updated", "qrcode.updated">>}

\* Number(process.env.FORWARD_RETRIES || 3)
Retries(n) == [nan |-> FALSE, n |-> n]
RetriesNaN == [nan |-> TRUE, n |-> 0]
RetryValues == {Retries(n) : n \in -1..MaxRetries} \cup {RetriesNaN}

\* what the backend may answer in one run
Backends == {{200, 400, 500}, {NoResponse, 200}}

\* the instance field of a join request
JoinInstances == {Undefined, Str(""), Str("a"), Str("b")}

Config(url, retries, events) ==
  [BACKEND_URL |-> url, FORWARD_RETRIES |-> retries, FORWARD_EVENTS |-> events,
   INCLUDE_RAW |-> FALSE, RAW_MAX |-> RAW_MAX_DEFAULT, EVENTS |-> <<>>,
   WEBSOCKET_ENABLED |-> TRUE, EVOLUTION_API_URL |-> "wss://evolution",
   WEBSOCKET_GLOBAL_EVENTS |-> TRUE, INSTANCE_NAME |-> ""]

URL == "http://backend/hook"

(***************************************************************************)
(* The relay                                                               *)
(***************************************************************************)
\* process.on("SIGTERM" / "SIGINT", ...) has been called: bridge.js does it in
\* the else branch of the subscription set-up, part_003 nowhere
ShutdownRegistered ==
  CASE variant = "bridge" -> ~(Len(FORWARD_EVENTS) > 0)
    [] variant = "simple" -> FALSE
    [] OTHER -> TRUE

\* the process after start-up, its upstream socket in the given state
Process(upstream) ==
  [state |-> "running", signalHandlers |-> ShutdownRegistered,
   upstream |-> upstream, front |-> "open", exit |-> "none"]

\* the state once the module has been loaded
Started ==
  /\ now = 0
  /\ handlers = Subscribe(config.FORWARD_EVENTS)
  /\ members = [c \in Clients |-> {}]
  /\ joinCount = 0
  /\ lastJoin = None
  /\ observed = <<>>
  /\ tasks = <<>>
  /\ emits = <<>>

\* a front socket sends join_instance (subscribe in server.js)
Join ==
  \E c \in Clients, instance \in JoinInstances, joinThrows \in BOOLEAN :
    /\ proc.state # "exited" /\ proc.front # "closed"
    /\ joinCount < MaxJoins
    /\ joinThrows => (variant # "index" /\ Truthy(instance))
    /\ LET r == IF variant = "index" THEN subscribe(c, instance)
                ELSE join_instance(c, instance, joinThrows)
       IN /\ members' = r.members
          /\ lastJoin' = [client |-> c, instance |-> instance, ack |-> r.ack]
    /\ joinCount' = joinCount + 1
    /\ UNCHANGED <<variant, config, now, handlers, observed, tasks, emits, source,
                   backend, proc, nIn, nOut>>

\* a front socket disconnects: the adapter drops it from its rooms
Disconnect ==
  \E c \in Clients :
    /\ proc.state # "exited"
    /\ members[c] # {}
    /\ members' = [members EXCEPT ![c] = {}]
    /\ lastJoin' = None
    /\ UNCHANGED <<variant, config, now, handlers, joinCount,
                   observed, tasks, emits, source, backend, proc, nIn, nOut>>

\* the Evolution socket emits an event: every listener registered for it
\* runs up to its first await
Upstream ==
  \E e \in source :
    /\ proc.state = "running" /\ proc.upstream = "connected"
    /\ Len(observed) < MaxEvents
    /\ Len(tasks) + Len(HandlersFor(e.name)) <= MaxTasks
    /\ LET kinds == HandlersFor(e.name)
           ev == Len(observed) + 1
           started == [i \in 1..Len(kinds) |->
                         Advance(Enter(NewTask(Len(tasks) + i, ev, kinds[i],
                                               e.name, e.args, now)))]
       IN /\ tasks' = tasks \o [i \in 1..Len(kinds) |-> started[i].task]
          /\ emits' = emits \o FlattenEmits(started, 1)
    /\ now' = now + 1
    /\ observed' = Append(observed, e)
    /\ lastJoin' = None
    /\ UNCHANGED <<variant, config, handlers, members, joinCount, source, backend, proc,
                   nIn, nOut>>

InFlight_serial(i) ==
  tasks[i].pc = "post" /\ \A j \in 1..(i - 1) : tasks[j].pc = "done"

\* the promise of the axios.post call of task i is pending; every call has a
\* promise of its own
InFlight(i) ==
  tasks[i].pc = "post"

\* the POST of task i settles and its handler runs on
ResponseOf(i) ==
  \E status \in backend :
    /\ proc.state # "exited"
    /\ InFlight(i)
    /\ LET r == Advance(Settle(tasks[i], status))
       IN /\ tasks' = [tasks EXCEPT ![i] = r.task]
          /\ emits' = emits \o r.emits
    /\ lastJoin' = None
    /\ UNCHANGED <<variant, config, now, handlers, members, joinCount,
                   observed, source, backend, proc, nIn, nOut>>

\* a POST in flight settles
Response ==
  \E i \in 1..Len(tasks) : ResponseOf(i)

\* the backoff timer of a task fires
BackoffElapsed ==
  \E i \in 1..Len(tasks) :
    /\ proc.state # "exited"
    /\ tasks[i].pc = "backoff"
    /\ LET r == Advance(Wake(tasks[i]))
       IN /\ tasks' = [tasks EXCEPT ![i] = r.task]
          /\ emits' = emits \o r.emits
    /\ lastJoin' = None
    /\ UNCHANGED <<variant, config, now, handlers, members, joinCount,
                   observed, source, backend, proc, nIn, nOut>>

\* The relay with its front sockets: catch-all mode, a backend configured.
Init ==
  /\ variant \in {"bridge", "index", "deep"}
  /\ config = Config(URL, Retries(1), <<>>)
  /\ source \in {{Event("qrcode.updated", <<pA>>)}, {Event("custom.event", <<pB>>)}}
  /\ backend \in {{200}, {500}}
  /\ proc = Process("connected")
  /\ Started
  /\ nIn = None
  /\ nOut = None

Next == Join \/ Disconnect \/ Upstream \/ Response \/ BackoffElapsed

Spec == Init /\ [][Next]_vars

\* The dispatcher and the forwarder under every configuration; no front
\* socket joins.
InitForward ==
  /\ variant \in Variants
  /\ config \in {Config(u, r, l) : u \in {"", URL}, r \in RetryValues, l \in EventLists}
  /\ source \in {{Event("qrcode.updated", <<pA>>), Event("messages.upsert", <<pNone>>),
                  Event("custom.event", <<pA, pB>>)},
                 {Event("connection.update", <<pC>>)},
                 {Event("messages.upsert", <<pM>>)}}
  /\ backend \in Backends
  \* the message with the null attachment goes to index.js, whose normalizer
  \* is the one that maps the attachments
  /\ source = {Event("messages.upsert", <<pM>>)} => variant = "index"
  \* the retry count varies for bridge.js, the variant that reads it, in
  \* catch-all mode over the single-event source
  /\ (variant # "bridge" \/ config.BACKEND_URL = "" \/ config.FORWARD_EVENTS # <<>>
        \/ source # {Event("connection.update", <<pC>>)})
        => config.FORWARD_RETRIES = Retries(FORWARD_RETRIES_DEFAULT)
  /\ proc = Process("connected")
  /\ Started
  /\ nIn = None
  /\ nOut = None

NextForward == Upstream \/ Response \/ BackoffElapsed

SpecForward == InitForward /\ [][NextForward]_vars

(***************************************************************************)
(* The life of the process: the upstream socket connects and drops, a      *)
(* signal arrives.                                                         *)
(***************************************************************************)
\* no listener for the signal: Node's default action ends the process at once
killed(p) == [p EXCEPT !.state = "exited", !.exit = "signal"]

\* bridge.js shutdown(sig): exits from the callback of server.close
shutdown(p) ==
  [p EXCEPT !.upstream = "disconnected", !.front = "closed", !.state = "closing"]

\* index.js shutdown: the front server of server.js is left alone
shutdown_index(p) ==
  [p EXCEPT !.upstream = IF @ = "connected" THEN "disconnected" ELSE @,
            !.state = "exited", !.exit = "0"]

\* part_002 shutdown
shutdown_deep(p) ==
  [p EXCEPT !.upstream = IF @ = "connected" THEN "disconnected" ELSE @,
            !.front = "closed", !.state = "exited", !.exit = "0"]

\* the Evolution socket connects (again)
Connect ==
  /\ proc.state = "running"
  /\ proc.upstream = "connecting"
  /\ proc' = [proc EXCEPT !.upstream = "connected"]
  /\ lastJoin' = None
  /\ UNCHANGED <<variant, config, now, handlers, members, joinCount,
                 observed, tasks, emits, source, backend, nIn, nOut>>

\* the connection drops; the client reconnects on its own
Drop ==
  /\ proc.state = "running"
  /\ proc.upstream = "connected"
  /\ proc' = [proc EXCEPT !.upstream = "connecting"]
  /\ lastJoin' = None
  /\ UNCHANGED <<variant, config, now, handlers, members, joinCount,
                 observed, tasks, emits, source, backend, nIn, nOut>>

\* SIGINT or SIGTERM is delivered
Signal ==
  /\ proc.state = "running"
  /\ proc' = IF ~proc.signalHandlers THEN killed(proc)
             ELSE CASE variant = "bridge" -> shutdown(proc)
                    [] variant = "index" -> shutdown_index(proc)
                    [] OTHER -> shutdown_deep(proc)
  \* ioFront.disconnectSockets(true) of bridge.js
  /\ members' = IF proc.signalHandlers /\ variant = "bridge"
                THEN [c \in Clients |-> {}] ELSE members
  /\ lastJoin' = None
  /\ UNCHANGED <<variant, config, now, handlers, joinCount,
                 observed, tasks, emits, source, backend, nIn, nOut>>

\* bridge.js: the callback of server.close runs process.exit(0)
ServerClosed ==
  /\ proc.state = "closing"
  /\ proc' = [proc EXCEPT !.state = "exited", !.exit = "0"]
  /\ lastJoin' = None
  /\ UNCHANGED <<variant, config, now, handlers, members, joinCount,
                 observed, tasks, emits, source, backend, nIn, nOut>>

\* values of EVENTS after split/trim/filter
EventsSettings == {<<>>, <<"qrcode.updated">>}

InitLife ==
  /\ variant \in Variants
  /\ config \in {[Config(URL, Retries(1), l) EXCEPT !.EVENTS = ev] :
                   l \in {<<>>, <<"qrcode.updated">>}, ev \in EventsSettings}
  /\ source = {Event("qrcode.updated", <<pA>>), Event("custom.event", <<pB>>)}
  /\ backend = {200, 500}
  /\ proc = Process("connecting")
  /\ Started
  /\ nIn = None
  /\ nOut = None

NextLife ==
  Connect \/ Drop \/ Signal \/ ServerClosed \/ Upstream \/ Response \/ BackoffElapsed

SpecLife == InitLife /\ [][NextLife]_vars

(***************************************************************************)
(* The relay over a fan-out server that works, or whose emit fails; all    *)
(* events are of one instance.                                             *)
(***************************************************************************)
InitFault ==
  /\ variant \in {"bridge", "index", "deep"}
  /\ config = Config(URL, Retries(1), <<>>)
  /\ source = {Event("qrcode.updated", <<pA>>)}
  /\ backend \in {{200}, {500}}
  /\ proc \in {[Process("connected") EXCEPT !.front = f] : f \in {"open", "broken"}}
  /\ Started
  /\ nIn = None
  /\ nOut = None

NextFault == Join \/ Upstream \/ Response \/ BackoffElapsed

SpecFault == InitFault /\ [][NextFault]_vars

(***************************************************************************)
(* Start-up: the module is loaded, the environment is validated, and only  *)
(* then is the Evolution socket created.                                   *)
(***************************************************************************)
\* the checks that precede the creation of the Evolution socket, with the
\* argument of process.exit when one of them fails
startup(cfg) ==
  IF ~cfg.WEBSOCKET_ENABLED THEN [ok |-> FALSE, exit |-> "0"]
  ELSE IF cfg.EVOLUTION_API_URL = "" THEN [ok |-> FALSE, exit |-> "1"]
  ELSE IF ~cfg.WEBSOCKET_GLOBAL_EVENTS /\ cfg.INSTANCE_NAME = ""
       THEN [ok |-> FALSE, exit |-> "1"]
  ELSE [ok |-> TRUE, exit |-> "none"]

\* the module body runs: validation, then io(connectUrl, socketOpts)
Boot ==
  /\ proc.state = "starting"
  /\ LET s == startup(config)
     IN proc' = IF s.ok
                THEN [proc EXCEPT !.state = "running", !.upstream = "connecting"]
                ELSE [proc EXCEPT !.state = "exited", !.exit = s.exit]
  /\ lastJoin' = None
  /\ UNCHANGED <<variant, config, now, handlers, members, joinCount,
                 observed, tasks, emits, source, backend, nIn, nOut>>

\* the environment at start-up
Environments ==
  {[Config(URL, Retries(1), <<>>) EXCEPT !.WEBSOCKET_ENABLED = en,
                                         !.EVOLUTION_API_URL = u,
                                         !.WEBSOCKET_GLOBAL_EVENTS = g,
                                         !.INSTANCE_NAME = n] :
     en \in BOOLEAN, u \in {"", "wss://evolution"}, g \in BOOLEAN, n \in {"", "a"}}

InitBoot ==
  /\ variant \in Variants
  /\ config \in Environments
  /\ source = {Event("qrcode.updated", <<pA>>)}
  /\ backend = {200, 500}
  /\ proc = [Process("unopened") EXCEPT !.state = "starting"]
  /\ Started
  /\ nIn = None
  /\ nOut = None

NextBoot == Boot \/ Connect \/ Upstream \/ Response \/ BackoffElapsed

SpecBoot == InitBoot /\ [][NextBoot]_vars

(***************************************************************************)
(* The normalizer on its own: formatEvent of each variant applied to one   *)
(* event name and payload.                                                 *)
(***************************************************************************)
MaxKeys == 8

Absent == [t |-> "absent"]
Opt(k, v) == IF v = Absent THEN <<>> ELSE <<KV(k, v)>>

RECURSIVE Rep(_, _)
\* the string of n copies of c
Rep(c, n) ==
  IF n = 0 THEN ""
  ELSE LET h == Rep(c, n \div 2) IN h \o h \o (IF n % 2 = 1 THEN c ELSE "")

InstVals == {Absent, Null, Str(""), Num(0), Str("a"), Num(7)}
NameVals == {Absent, Str(""), Str("n")}
DataVals == {Absent, Null, Str("d"), Obj(<<>>),
             Obj(<<KV("instance", Str(""))>>), Obj(<<KV("instance", Str("b"))>>)}

\* payloads that carry the instance in every combination of the three places
InstancePayloads ==
  {Obj(<<KV("qr", Str("x"))>> \o Opt("instance", i) \o Opt("instanceName", n)
       \o Opt("data", d)) : i \in InstVals, n \in NameVals, d \in DataVals}

\* payloads that are no plain object; the array is what onAny builds
PlainPayloads ==
  {Undefined, Null, Num(0), Num(5), Str(""), Str("hello"), Bool(TRUE), Bool(FALSE),
   Arr(<<>>), Arr(<<pA, pB>>), Obj(<<>>)}

LongString == Rep("x", GENERIC_STR_LIMIT + 1)

WideValue(i) ==
  CASE i % 8 = 1 -> Str("v")
    [] i % 8 = 2 -> Num(2)
    [] i % 8 = 3 -> Arr(<<Num(1), Num(2), Num(3), Num(4)>>)
    [] i % 8 = 4 -> Obj(<<KV("in", Num(1))>>)
    [] i % 8 = 5 -> Str(LongString)
    [] i % 8 = 6 -> Bool(TRUE)
    [] i % 8 = 7 -> Null
    [] OTHER -> Str("w")

\* objects of n top-level keys k1..kn, with or without an instance
WidePayloads ==
  {Obj([i \in 1..n |-> KV("k" \o NatStr(i), WideValue(i))] \o Opt("instance", inst)) :
     n \in 5..MaxKeys, inst \in {Absent, Str("a")}}

MessagePayloads ==
  {Obj(<<KV("message", Obj(<<KV("id", Str("m1")), KV("from", Str("+100")),
                             KV("text", Str("hello")), KV("timestamp", Num(123))>>)),
         KV("instance", Str("acct2"))>>),
   Obj(<<KV("id", Str("m2")), KV("text", Str(Rep("y", SNIPPET_MAX + 1)))>>),
   Obj(<<KV("id", Str("m3")), KV("attachments", Arr(<<Obj(<<>>), Null>>))>>),
   Obj(<<KV("contact", Obj(<<KV("id", Str("k1")),
            KV("phones", Arr(<<Str("1"), Str("2"), Str("3"), Str("4"), Str("5")>>)),
            KV("emails", Arr(<<Str("e1"), Str("e2"), Str("e3")>>))>>))>>),
   Obj(<<KV("chat", Obj(<<KV("id", Str("ch1")), KV("title", Str("t")),
            KV("participants", Arr(<<Str("p1"), Str("p2")>>))>>))>>),
   Obj(<<KV("message", Obj(<<KV("id", Str("m4")),
            KV("body", Str(Rep("z", SNIPPET_MAX)))>>))>>),
   Obj(<<KV("id", Str("k2")), KV("phone", Str("9")),
         KV("emails", Arr(<<Str("e1")>>))>>),
   Obj(<<KV("type", Str("order")), KV("instance", Str("a"))>>),
   Obj(<<KV("eventType", Str("ping"))>>)}

NormPayloads == InstancePayloads \cup PlainPayloads \cup WidePayloads \cup MessagePayloads

Recognized ==
  {"messages.upsert", "contacts.update", "chats.update", "qrcode.updated",
   "connection.update"}

NormNames == Recognized \cup {"custom.event"}

NoOutput == [bridge |-> None, index |-> None, deep |-> None, again |-> None]

InitNorm ==
  /\ variant = "index"
  /\ config \in {[Config("", Retries(FORWARD_RETRIES_DEFAULT), <<>>)
                    EXCEPT !.INCLUDE_RAW = raw] : raw \in BOOLEAN}
  /\ source = {}
  /\ backend = {}
  /\ proc = Process("connected")
  /\ Started
  /\ nIn \in {[event |-> e, payload |-> p] : e \in NormNames, p \in NormPayloads}
  /\ nOut = NoOutput

FormatBridge ==
  /\ nIn # None
  /\ nOut.bridge = None
  /\ nOut' = [nOut EXCEPT !.bridge = formatEvent_bridge(nIn.event, nIn.payload, now)]
  /\ UNCHANGED <<variant, config, now, handlers, members, joinCount, lastJoin,
                 observed, tasks, emits, source, backend, proc, nIn>>

FormatIndex ==
  /\ nIn # None
  /\ nOut.index = None
  /\ nOut' = [nOut EXCEPT !.index = formatEvent(nIn.event, nIn.payload, now)]
  /\ UNCHANGED <<variant, config, now, handlers, members, joinCount, lastJoin,
                 observed, tasks, emits, source, backend, proc, nIn>>

FormatDeep ==
  /\ nIn # None
  /\ nOut.deep = None
  /\ nOut' = [nOut EXCEPT !.deep = formatEvent_deep(nIn.event, nIn.payload, now)]
  /\ UNCHANGED <<variant, config, now, handlers, members, joinCount, lastJoin,
                 observed, tasks, emits, source, backend, proc, nIn>>

\* formatEvent of index.js called once more on the same input, the clock
\* having moved on
FormatAgain ==
  /\ nIn # None
  /\ nOut.index # None
  /\ nOut.again = None
  /\ now' = now + 1
  /\ nOut' = [nOut EXCEPT !.again = formatEvent(nIn.event, nIn.payload, now')]
  /\ UNCHANGED <<variant, config, handlers, members, joinCount, lastJoin,
                 observed, tasks, emits, source, backend, proc, nIn>>

NextNorm == FormatBridge \/ FormatIndex \/ FormatDeep \/ FormatAgain

SpecNorm == InitNorm /\ [][NextNorm]_vars

(***************************************************************************)
(* Properties                                                              *)
(***************************************************************************)
Range(f) == {f[i] : i \in DOMAIN f}
EmitsOf(i) == SelectSeq(emits, LAMBDA e : e.task = i)
TasksOf(ev) == SelectSeq(tasks, LAMBDA t : t.ev = ev)
Retrying == variant \in {"bridge", "simple", "index"}

\* C1: in bridge.js, part_003 and index.js every handler invocation emits its
\* envelope to its room exactly once, and only once the forward is over,
\* however the forward ended (2xx, 4xx, retries exhausted, or a throw); no
\* emit happens while the forward is still running.
C1_PublishOnceAfterForward ==
  Retrying =>
    \A i \in 1..Len(tasks) :
      /\ tasks[i].pc # "done" => Len(EmitsOf(i)) = 0
      /\ tasks[i].pc = "done" =>
           /\ Len(EmitsOf(i)) = 1
           /\ tasks[i].publishes = 1
           /\ EmitsOf(i)[1].env = tasks[i].env
           /\ EmitsOf(i)[1].room = "inst:" \o JsString(tasks[i].env.instance)

\* a forward that threw (part_003, HTTP 500), and its envelope was emitted
C1_Witness ==
  \E i \in 1..Len(tasks) :
    /\ variant = "simple"
    /\ tasks[i].pc = "done"
    /\ tasks[i].fwd = "threw"
    /\ tasks[i].responses = <<500>>
    /\ Len(EmitsOf(i)) = 1

AllAre(seq, x) == \A k \in 1..Len(seq) : seq[k] = x

\* C2: bridge.js with a backend URL and a retry count N >= 1: against an
\* endpoint that answers 500 every time, sendToBackend issues exactly N POSTs
\* and then returns normally.
C2_Retries500 ==
  (variant = "bridge" /\ BACKEND_URL # "" /\ ~FORWARD_RETRIES.nan /\ FORWARD_RETRIES.n >= 1) =>
    \A i \in 1..Len(tasks) :
      AllAre(tasks[i].responses, 500) =>
        /\ Len(tasks[i].posts) <= FORWARD_RETRIES.n
        /\ Len(tasks[i].posts) >= 1
        /\ tasks[i].pc = "done" =>
             /\ Len(tasks[i].posts) = FORWARD_RETRIES.n
             /\ Len(tasks[i].responses) = FORWARD_RETRIES.n
             /\ tasks[i].fwd = "returned"

C2_Witness ==
  \E i \in 1..Len(tasks) :
    /\ variant = "bridge"
    /\ FORWARD_RETRIES = Retries(FORWARD_RETRIES_DEFAULT)
    /\ tasks[i].pc = "done"
    /\ tasks[i].responses = <<500, 500, 500>>

\* C3: bridge.js: a 4xx answer ends the forward: no POST follows it, it does
\* not count as a failed attempt, and sendToBackend returns normally; when
\* the first answer is a 4xx there is exactly one POST and no backoff delay.
C3_No4xxRetry ==
  variant = "bridge" =>
    \A i \in 1..Len(tasks) :
      \A k \in 1..Len(tasks[i].responses) :
        (tasks[i].responses[k] >= 400 /\ tasks[i].responses[k] < 500) =>
          /\ k = Len(tasks[i].responses)
          /\ Len(tasks[i].posts) = k
          /\ tasks[i].attempt = k - 1
          /\ Len(tasks[i].delays) = k - 1
          /\ tasks[i].pc = "done"
          /\ tasks[i].fwd = "returned"

C3_Witness ==
  \E i \in 1..Len(tasks) :
    /\ variant = "bridge"
    /\ FORWARD_RETRIES.n >= 2
    /\ tasks[i].responses = <<400>>
    /\ Len(tasks[i].posts) = 1
    /\ tasks[i].delays = <<>>
    /\ tasks[i].pc = "done"

\* C4: whenever an envelope is emitted, it goes to room "inst:" + its instance
\* and is received only by sockets that are in that room at that moment; a
\* socket that is only in rooms of other instances does not receive it.
C4_TenantIsolation ==
  [][\A k \in (Len(emits) + 1)..Len(emits') :
        /\ emits'[k].room = "inst:" \o JsString(emits'[k].env.instance)
        /\ \A c \in emits'[k].to : emits'[k].room \in members[c]
        /\ members' = members]_vars

\* an envelope was received by one socket while the other sat in another room
C4_Witness ==
  \E k \in 1..Len(emits), c \in Clients :
    /\ emits[k].to # {}
    /\ c \notin emits[k].to
    /\ members[c] # {}
    /\ emits[k].room \notin members[c]

\* C5: part_002: a publish to a room without members does not raise and
\* performs no emit: every emit that was performed had at least one receiver,
\* all of them in the envelope's room, and every finished handler ran its
\* publish step to the end with at most one emit.
C5_EmptyRoomDropped ==
  variant = "deep" =>
    /\ \A k \in 1..Len(emits) : emits[k].to # {}
    /\ \A i \in 1..Len(tasks) :
         tasks[i].pc = "done" =>
           /\ tasks[i].fwd = "returned"
           /\ tasks[i].publishes = 1
           /\ Len(EmitsOf(i)) <= 1

\* a handler finished without any emit while a socket sat in another room
C5_Witness ==
  \E i \in 1..Len(tasks), c \in Clients :
    /\ variant = "deep"
    /\ tasks[i].pc = "done"
    /\ tasks[i].publishes = 1
    /\ Len(EmitsOf(i)) = 0
    /\ members[c] # {}

Listed(name) == \E k \in 1..Len(FORWARD_EVENTS) : FORWARD_EVENTS[k] = name

\* C6: with a non-empty FORWARD_EVENTS no catch-all listener is registered and
\* an upstream event is handled if and only if its name is listed; with an
\* empty list the only listener is the catch-all one, and it handles every
\* event exactly once.
C6_SubscriptionModes ==
  /\ Len(FORWARD_EVENTS) > 0 =>
       /\ ~handlers.any
       /\ \A ev \in 1..Len(observed) :
            /\ (Len(TasksOf(ev)) >= 1) <=> Listed(observed[ev].name)
            /\ \A k \in 1..Len(TasksOf(ev)) :
                 /\ TasksOf(ev)[k].kind = "on"
                 /\ TasksOf(ev)[k].env.event = observed[ev].name
  /\ Len(FORWARD_EVENTS) = 0 =>
       /\ handlers.any
       /\ handlers.named = <<>>
       /\ \A ev \in 1..Len(observed) :
            /\ Len(TasksOf(ev)) = 1
            /\ TasksOf(ev)[1].kind = "any"
            /\ TasksOf(ev)[1].env.event = observed[ev].name

\* filtered mode: one event was dropped and a listed one was handled
C6_Witness ==
  /\ Len(FORWARD_EVENTS) > 0
  /\ \E ev \in 1..Len(observed) :
       ~Listed(observed[ev].name) /\ Len(TasksOf(ev)) = 0
  /\ \E ev \in 1..Len(observed) :
       Listed(observed[ev].name) /\ Len(TasksOf(ev)) >= 1

AbsentOrEmpty(v) == v \in {Undefined, Null, Str("")}

\* no instance, instanceName or data.instance that is present and non-empty
NoInstanceField(p) ==
  \/ p.t # "object"
  \/ /\ AbsentOrEmpty(Get(p, "instance"))
     /\ AbsentOrEmpty(Get(p, "instanceName"))
     /\ \/ Get(p, "data").t # "object"
        \/ AbsentOrEmpty(Get(Get(p, "data"), "instance"))

Outputs == {nOut[v] : v \in {"bridge", "index", "deep"}} \ {None}

\* C8: a payload without any non-empty instance field (a null or primitive
\* payload and the argument array of onAny included) gets instance "unknown",
\* and no payload gets an instance that is null, undefined or "".
C8_InstanceDefault ==
  \A env \in Outputs :
    /\ NoInstanceField(nIn.payload) => env.instance = Str("unknown")
    /\ env.instance \notin {Null, Undefined, Str("")}

\* the argument array of onAny, normalized by index.js and by part_002
C8_Witness ==
  /\ nIn # None
  /\ nIn.payload = Arr(<<pA, pB>>)
  /\ nOut.index # None
  /\ nOut.deep # None
  /\ nOut.index.instance = Str("unknown")

\* C9: pickInstance (index.js, bridge.js) returns the first non-empty (truthy)
\* value of payload.instance, payload.instanceName, payload.data.instance; in
\* particular payload.instance wins over payload.data.instance.
C9_InstancePriority ==
  \A v \in {"bridge", "index"} :
    (nOut[v] # None /\ nIn.payload.t = "object") =>
      LET p == nIn.payload
          a == Get(p, "instance")
          b == Get(p, "instanceName")
          c == IF Get(p, "data").t = "object" THEN Get(Get(p, "data"), "instance")
               ELSE Undefined
          out == nOut[v].instance
      IN /\ Truthy(a) => out = a
         /\ (~Truthy(a) /\ Truthy(b)) => out = b
         /\ (~Truthy(a) /\ ~Truthy(b) /\ Truthy(c)) => out = c

C9_Witness ==
  /\ nIn # None
  /\ nOut.index # None
  /\ Get(nIn.payload, "instance") = Str("a")
  /\ Get(nIn.payload, "instanceName") = Str("n")
  /\ OptGet(Get(nIn.payload, "data"), "instance") = Str("b")
  /\ nOut.index.instance = Str("a")

\* C10: formatEvent of index.js, for an unrecognized event name and an object
\* payload of more than 6 top-level keys: the body has exactly 6 keys, the
\* first 6 of the payload in iteration order.
C10_GenericBodySixKeys ==
  (/\ nOut.index # None
   /\ nIn.event \notin Recognized
   /\ nIn.payload.t = "object"
   /\ Len(nIn.payload.kv) > GENERIC_KEYS) =>
     /\ nOut.index.body.t = "object"
     /\ Len(nOut.index.body.kv) = GENERIC_KEYS
     /\ \A k \in 1..GENERIC_KEYS : nOut.index.body.kv[k].k = nIn.payload.kv[k].k

SpecificTypes ==
  {Str("qrcode"), Str("connection"), Str("message"), Str("contact"), Str("chat")}

\* C11: formatEvent of index.js, for an event name that is none of the five
\* recognized ones: the type is never one a specific rule assigns, and for an
\* object payload it is payload.type, else payload.eventType, else "generic".
C11_GenericTypeForUnrecognized ==
  (nOut.index # None /\ nIn.event \notin Recognized) =>
    /\ nOut.index.type \notin SpecificTypes
    /\ nIn.payload.t = "object" =>
         nOut.index.type = Or(Or(Get(nIn.payload, "type"), Get(nIn.payload, "eventType")),
                              Str("generic"))

\* the message of a messages.upsert payload, and its text
MessageOf(p) == Or(OptGet(p, "message"), p)
TextOf(msg) ==
  IF ~Truthy(msg) THEN Null
  ELSE Or(Or(Or(Get(msg, "text"), Get(msg, "body")),
             And(Get(msg, "content"),
                 Or(Get(Get(msg, "content"), "text"), Get(Get(msg, "content"), "body")))),
          Null)
Failed(env) == Get(env.meta, "error") # Undefined

\* C12: formatEvent of index.js, messages.upsert, the extraction succeeding:
\* a text of more than 256 characters gives a snippet of exactly its first
\* 256 characters, a shorter (non-empty) text gives the text itself.
C12_SnippetCut ==
  (nOut.index # None /\ nIn.event = "messages.upsert" /\ ~Failed(nOut.index)) =>
    LET text == TextOf(MessageOf(nIn.payload))
        snippet == Get(nOut.index.body, "snippet")
    IN (text.t = "string" /\ Len(text.s) > 0) =>
         /\ snippet.t = "string"
         /\ Len(text.s) > SNIPPET_MAX =>
              /\ Len(snippet.s) = SNIPPET_MAX
              /\ snippet.s = SubSeq(text.s, 1, SNIPPET_MAX)
         /\ Len(text.s) <= SNIPPET_MAX => snippet = text

\* a text of 257 characters was cut to 256
C12_Witness ==
  /\ nIn # None
  /\ nIn.event = "messages.upsert"
  /\ nOut.index # None
  /\ TextOf(MessageOf(nIn.payload)).t = "string"
  /\ Len(TextOf(MessageOf(nIn.payload)).s) = SNIPPET_MAX + 1
  /\ Len(Get(nOut.index.body, "snippet").s) = SNIPPET_MAX

\* out is the first entries of list, at most n of them, in order
FirstOf(out, list, n) ==
  /\ Len(out) = Min(n, Len(list))
  /\ \A k \in 1..Len(out) : out[k] = list[k]

\* a list of entries that are all present (non-empty)
PlainList(v) == v.t = "array" /\ \A k \in 1..Len(v.es) : Truthy(v.es[k])

\* C13: formatEvent of index.js, contacts.update: body.phones has at most 3
\* entries and body.emails at most 2; when the contact carries its numbers
\* (addresses) as a list, they are the first entries of that list, in order.
C13_ContactListsCut ==
  (nOut.index # None /\ nIn.event = "contacts.update") =>
    LET c == Or(OptGet(nIn.payload, "contact"), nIn.payload)
        phones == Get(nOut.index.body, "phones")
        emails == Get(nOut.index.body, "emails")
    IN /\ phones.t = "array" /\ Len(phones.es) <= MAX_PHONES
       /\ emails.t = "array" /\ Len(emails.es) <= MAX_EMAILS
       /\ (Truthy(c) /\ ~Truthy(Get(c, "phone")) /\ PlainList(Get(c, "phones"))) =>
            FirstOf(phones.es, Get(c, "phones").es, MAX_PHONES)
       /\ (Truthy(c) /\ ~Truthy(Get(c, "email")) /\ PlainList(Get(c, "emails"))) =>
            FirstOf(emails.es, Get(c, "emails").es, MAX_EMAILS)

\* five phone numbers gave the first three
C13_Witness ==
  /\ nIn # None
  /\ nIn.event = "contacts.update"
  /\ nOut.index # None
  /\ HasKey(nIn.payload, "contact")
  /\ Get(Get(nIn.payload, "contact"), "phones").t = "array"
  /\ Len(Get(Get(nIn.payload, "contact"), "phones").es) = 5
  /\ Get(nOut.index.body, "phones") = Arr(<<Str("1"), Str("2"), Str("3")>>)
  /\ Get(nOut.index.body, "emails") = Arr(<<Str("e1"), Str("e2")>>)

\* C14: formatEvent of index.js returns an envelope for every event name and
\* payload; when the extraction raises, the envelope has body null,
\* meta.error "normalization_failed" and the error's text in
\* meta.normalizationError; otherwise meta carries no error.
C14_NormalizationNeverThrows ==
  nOut.index # None =>
    LET env == nOut.index
        raises == nIn.event = "messages.upsert"
                  /\ extractMessageThrows(MessageOf(nIn.payload))
    IN /\ env.version = "1.0"
       /\ env.event = nIn.event
       /\ raises =>
            /\ env.body = Null
            /\ Get(env.meta, "error") = Str("normalization_failed")
            /\ Get(env.meta, "normalizationError").t = "string"
            /\ Len(Get(env.meta, "normalizationError").s) > 0
       /\ ~raises => env.meta = Obj(<<>>)

\* a message whose attachments hold a null entry was degraded
C14_Witness ==
  /\ nIn # None
  /\ nIn.event = "messages.upsert"
  /\ Get(nIn.payload, "attachments") = Arr(<<Obj(<<>>), Null>>)
  /\ nOut.index # None
  /\ nOut.index.body = Null
  /\ Get(nOut.index.meta, "error") = Str("normalization_failed")

\* C15: formatEvent of index.js called twice with the same event name and
\* payload, at different clock readings: the two envelopes agree in every
\* field but receivedAt.
C15_Idempotent ==
  (nOut.index # None /\ nOut.again # None) =>
    [nOut.again EXCEPT !.receivedAt = 0] = [nOut.index EXCEPT !.receivedAt = 0]

\* the second call was made at a later clock reading
C15_Witness ==
  /\ nOut.index # None
  /\ nOut.again # None
  /\ nIn.event = "messages.upsert"
  /\ nOut.again.receivedAt # nOut.index.receivedAt
  /\ nOut.again.body # Null

\* C17: with INCLUDE_RAW false no envelope of formatEvent (index.js,
\* part_002) has a raw field.
C17_RawOnlyWhenEnabled ==
  ~INCLUDE_RAW =>
    \A env \in {nOut.index, nOut.deep} \ {None} : env.raw = Undefined

\* C16: index.js, an upstream qrcode.updated or connection.update event: the
\* envelope has type "qrcode" (resp. "connection"), the payload's instance
\* and the payload itself as body; with a backend configured that envelope
\* is what is POSTed, and once the forward is over it is emitted, once, to
\* room "inst:" + instance.
C16_QrcodeEndToEnd ==
  variant = "index" =>
    \A i \in 1..Len(tasks) :
      LET t == tasks[i]
          e == observed[t.ev]
          p == PayloadOf(t.kind, e.args)
      IN e.name \in {"qrcode.updated", "connection.update"} =>
           /\ t.env.type = Str(IF e.name = "qrcode.updated" THEN "qrcode" ELSE "connection")
           /\ t.env.instance = Get(p, "instance")
           /\ t.env.body = p
           /\ BACKEND_URL # "" => Len(t.posts) >= 1
           /\ \A k \in 1..Len(t.posts) : t.posts[k] = t.env
           /\ t.pc # "done" => Len(EmitsOf(i)) = 0
           /\ t.pc = "done" =>
                /\ Len(t.responses) = Len(t.posts)
                /\ Len(EmitsOf(i)) = 1
                /\ EmitsOf(i)[1].env = t.env
                /\ EmitsOf(i)[1].room = "inst:" \o Get(p, "instance").s

\* a connection.update envelope was POSTed, answered 200, and emitted to inst:b
C16_Witness ==
  \E i \in 1..Len(tasks) :
    /\ variant = "index"
    /\ observed[tasks[i].ev].name = "connection.update"
    /\ tasks[i].pc = "done"
    /\ tasks[i].posts = <<tasks[i].env>>
    /\ tasks[i].responses = <<200>>
    /\ tasks[i].env.body = pC
    /\ Len(EmitsOf(i)) = 1
    /\ EmitsOf(i)[1].room = "inst:b"

\* C20: without a backend URL sendToBackend posts nothing, waits for no
\* backoff and returns normally: every handler invocation is over within the
\* step that started it, and (bridge.js, part_003, index.js) has emitted its
\* envelope once.
C20_NoBackendNoPost ==
  BACKEND_URL = "" =>
    \A i \in 1..Len(tasks) :
      /\ tasks[i].posts = <<>>
      /\ tasks[i].responses = <<>>
      /\ tasks[i].delays = <<>>
      /\ tasks[i].pc = "done"
      /\ tasks[i].fwd = "returned"
      /\ tasks[i].publishes = 1
      /\ Retrying => (Len(EmitsOf(i)) = 1 /\ EmitsOf(i)[1].env = tasks[i].env)

\* bridge.js and index.js each handled an event without a backend
C20_Witness ==
  /\ BACKEND_URL = ""
  /\ variant \in {"bridge", "index"}
  /\ Len(tasks) = MaxTasks
  /\ \A i \in 1..Len(tasks) : tasks[i].pc = "done" /\ Len(EmitsOf(i)) = 1

\* C18: bridge.js and part_002: when the process has exited after a signal,
\* the upstream socket has been disconnected and the front server closed, in
\* filtered mode as in catch-all mode.
C18_ShutdownClosesBoth ==
  (variant \in {"bridge", "deep"} /\ proc.state = "exited") =>
    /\ proc.upstream # "connected"
    /\ proc.front = "closed"

\* C19: index.js: with event names in EVENTS only those events are handled;
\* with EVENTS empty every upstream event is handled.
C19_EventsSetting ==
  variant = "index" =>
    /\ Len(EVENTS) > 0 =>
         \A i \in 1..Len(tasks) :
           \E k \in 1..Len(EVENTS) : EVENTS[k] = observed[tasks[i].ev].name
    /\ Len(EVENTS) = 0 =>
         \A ev \in 1..Len(observed) : Len(TasksOf(ev)) >= 1

\* C21: a process that stops at start-up has opened no upstream connection,
\* and the exit code for a missing instance name differs from the exit code
\* the same environment gives once the endpoint URL is missing.
C21_StartupExitCodes ==
  (proc.state = "exited" /\ ~startup(config).ok) =>
     /\ proc.upstream = "unopened"
     /\ (config.WEBSOCKET_ENABLED /\ config.EVOLUTION_API_URL # "")
           => proc.exit # startup([config EXCEPT !.EVOLUTION_API_URL = ""]).exit

\* C22: index.js: when the first answer to a POST is a 4xx, the forward makes
\* exactly that one POST and takes no backoff delay.
C22_Index4xxOnce ==
  variant = "index" =>
    \A i \in 1..Len(tasks) :
      (Len(tasks[i].responses) >= 1
         /\ tasks[i].responses[1] >= 400 /\ tasks[i].responses[1] < 500) =>
        /\ Len(tasks[i].posts) = 1
        /\ tasks[i].delays = <<>>

Last(seq) == seq[Len(seq)]

\* the answer that makes sendToBackend of the variant stop trying
Accepted(status) ==
  CASE variant = "bridge" -> status # NoResponse /\ validateStatus(status)
    [] variant = "deep" -> TRUE
    [] OTHER -> status # NoResponse /\ validateStatus_default(status)

\* no attempt is left to sendToBackend of the variant
Exhausted(t) ==
  CASE variant = "bridge" -> GeRetries(t.attempt)
    [] variant = "index" -> t.attempt > maxTries
    [] OTHER -> Len(t.posts) = 1

\* C23: in every variant an emitted envelope belongs to a handler whose
\* forward is over: the envelope was built first, every POST carried it and
\* has settled, the last answer was accepted or the attempts are used up, and
\* sendToBackend has returned or thrown; the emitted envelope is that one.
C23_NormalizeForwardPublish ==
  \A k \in 1..Len(emits) :
    LET t == tasks[emits[k].task] IN
      /\ emits[k].env = t.env
      /\ AllAre(t.posts, t.env)
      /\ Len(t.responses) = Len(t.posts)
      /\ t.fwd \in {"returned", "threw"}
      /\ t.pc = "done"
      /\ BACKEND_URL = "" => t.posts = <<>>
      /\ t.responses # <<>> => (Accepted(Last(t.responses)) \/ Exhausted(t))

\* index.js: a 500, the backoff, a 200, and then the emit
C23_Witness ==
  \E k \in 1..Len(emits) :
    /\ variant = "index"
    /\ tasks[emits[k].task].responses = <<500, 200>>
    /\ tasks[emits[k].task].delays = <<BACKOFF_BASE_MS>>
    /\ Len(tasks[emits[k].task].posts) = 2

\* C24: the chains of different events do not wait for one another: while
\* the handler of an earlier event is still in flight or retrying, the answer
\* to the POST of a later handler can arrive and that handler can run on to
\* its publish step; so a later event can be published before an earlier one.
C24_ChainsOverlap ==
  \A i \in 1..Len(tasks) :
    (/\ proc.state # "exited"
     /\ tasks[i].pc = "post"
     /\ \E j \in 1..(i - 1) : tasks[j].pc \in {"post", "backoff"})
      => ENABLED ResponseOf(i)

\* two events of one instance reached the same subscriber in the reverse of
\* their arrival order
C24_Witness ==
  \E k \in 1..Len(emits), l \in 1..Len(emits) :
    /\ k < l
    /\ tasks[emits[k].task].ev > tasks[emits[l].task].ev
    /\ emits[k].room = emits[l].room
    /\ emits[k].to \cap emits[l].to # {}

\* C25: in no variant does an error raised by the publish step leave the
\* handler as an unhandled rejection.
C25_PublishErrorCaught ==
  \A i \in 1..Len(tasks) : ~tasks[i].escaped

\* the failed attempts of a forward, and the attempts it may make
Failures(t) == Len(SelectSeq(t.responses, LAMBDA st : ~Accepted(st)))
Tries == IF variant = "bridge" THEN FORWARD_RETRIES.n ELSE maxTries

\* C26: bridge.js and index.js: the k-th backoff delay of a forward is
\* k x 1000 ms; every failed attempt is followed by one delay, except the
\* last attempt allowed, after which sendToBackend gives up without a delay.
C26_LinearBackoff ==
  variant \in {"bridge", "index"} =>
    \A i \in 1..Len(tasks) :
      /\ \A k \in 1..Len(tasks[i].delays) : tasks[i].delays[k] = k * 1000
      /\ Len(tasks[i].delays) =
           IF Failures(tasks[i]) >= 1 /\ Failures(tasks[i]) = Tries
           THEN Failures(tasks[i]) - 1 ELSE Failures(tasks[i])

\* bridge.js with three attempts, all failed: delays of 1000 and 2000 ms and
\* none after the third failure
C26_Witness ==
  \E i \in 1..Len(tasks) :
    /\ variant = "bridge"
    /\ Failures(tasks[i]) = 3
    /\ tasks[i].delays = <<1000, 2000>>
    /\ tasks[i].fwd = "returned"

\* C27: index.js: an envelope degraded by a failed normalization (body null,
\* meta.error set) is POSTed to the backend when one is configured, on every
\* attempt with its annotation, and once the forward is over it is emitted
\* once to the room of its instance, annotation included.
C27_DegradedDelivered ==
  variant = "index" =>
    \A i \in 1..Len(tasks) :
      Failed(tasks[i].env) =>
        /\ BACKEND_URL # "" => Len(tasks[i].posts) >= 1
        /\ \A k \in 1..Len(tasks[i].posts) :
             Get(tasks[i].posts[k].meta, "error") = Str("normalization_failed")
        /\ tasks[i].pc = "done" =>
             /\ Len(EmitsOf(i)) = 1
             /\ EmitsOf(i)[1].room = "inst:" \o JsString(tasks[i].env.instance)
             /\ Get(EmitsOf(i)[1].env.meta, "error") = Str("normalization_failed")
             /\ Get(EmitsOf(i)[1].env.meta, "normalizationError")
                  = Get(tasks[i].env.meta, "normalizationError")

\* the message with a null attachment went through index.js: degraded,
\* POSTed and emitted to inst:a
C27_Witness ==
  \E i \in 1..Len(tasks) :
    /\ variant = "index"
    /\ observed[tasks[i].ev] = Event("messages.upsert", <<pM>>)
    /\ tasks[i].env.body = Null
    /\ Failed(tasks[i].env)
    /\ tasks[i].posts = <<tasks[i].env>>
    /\ Len(EmitsOf(i)) = 1
    /\ EmitsOf(i)[1].room = "inst:a"

\* C28: bridge.js: all POST attempts of a handler carry the same envelope,
\* and the envelope it emits equals the envelope of each of its POSTs in
\* every field, receivedAt included.
C28_EnvelopeUnchanged ==
  variant = "bridge" =>
    \A i \in 1..Len(tasks) :
      \A k \in 1..Len(tasks[i].posts) :
        /\ tasks[i].posts[k] = tasks[i].posts[1]
        /\ \A e \in 1..Len(EmitsOf(i)) :
             /\ EmitsOf(i)[e].env = tasks[i].posts[k]
             /\ EmitsOf(i)[e].env.receivedAt = tasks[i].posts[k].receivedAt

\* an envelope POSTed twice, the retry after a later event had arrived, and
\* then emitted
C28_Witness ==
  \E i \in 1..Len(tasks) :
    /\ variant = "bridge"
    /\ Len(tasks[i].posts) = 2
    /\ tasks[i].responses[1] = 500
    /\ Len(EmitsOf(i)) = 1
    /\ EmitsOf(i)[1].env.receivedAt = tasks[i].ev - 1
    /\ now > tasks[i].ev

\* C29: no backlog.  The receivers of an emit are fixed when it is performed
\* and no emit is ever altered or removed; a handler emits at most once and a
\* finished handler (its envelope emitted, or dropped for an empty room)
\* never emits again; a step that changes the room membership performs no
\* emit.  So a socket that joins a room later receives nothing of the past.
C29_NoBacklog ==
  [][/\ Len(emits') >= Len(emits)
     /\ \A k \in 1..Len(emits) : emits'[k] = emits[k]
     /\ \A i \in 1..Len(tasks') :
          Len(SelectSeq(emits', LAMBDA e : e.task = i)) <= 1
     /\ \A i \in 1..Len(tasks) :
          tasks[i].pc = "done" =>
            SelectSeq(emits', LAMBDA e : e.task = i) = EmitsOf(i)
     /\ members' # members => emits' = emits]_vars

\* a socket sits in a room whose handler is done and did not deliver to it:
\* it joined after the publish step
C29_Witness ==
  \E i \in 1..Len(tasks), c \in Clients :
    /\ tasks[i].pc = "done"
    /\ tasks[i].publishes = 1
    /\ RoomOf(Or(tasks[i].env.instance, Str("unknown"))) \in members[c]
    /\ \A k \in 1..Len(EmitsOf(i)) : c \notin EmitsOf(i)[k].to
    /\ \E j \in 1..Len(tasks) : variant = "deep" /\ Len(EmitsOf(j)) = 0 /\ tasks[j].pc = "done"

\* C30: bridge.js with a backend URL: every handler invocation makes at
\* least one POST, whatever the value of FORWARD_RETRIES.
C30_AtLeastOnePost ==
  (variant = "bridge" /\ BACKEND_URL # "") =>
    \A i \in 1..Len(tasks) : Len(tasks[i].posts) >= 1

\* C31: in filtered mode every upstream event occurrence starts at most one
\* handler, so it is normalized, forwarded and published at most once,
\* whatever the allow-list.
C31_HandledAtMostOnce ==
  Len(FORWARD_EVENTS) > 0 =>
    \A ev \in 1..Len(observed) :
      /\ Len(TasksOf(ev)) <= 1
      /\ \A k \in 1..Len(TasksOf(ev)) : TasksOf(ev)[k].publishes <= 1

\* the sockets that received the envelope of handler i, after the step
ReceiversNext(i) ==
  UNION {emits'[k].to : k \in {n \in 1..Len(emits') : emits'[n].task = i}}

\* C32: when a handler reaches its publish step, its envelope is received by
\* exactly the sockets that are in room "inst:" + instance at that step,
\* whoever was in the room when the event arrived; if the room is empty
\* then, nobody receives it.
C32_MembershipAtPublish ==
  [][\A i \in 1..Len(tasks') :
       (tasks'[i].pc = "done" /\ (i > Len(tasks) \/ tasks[i].pc # "done")) =>
         /\ members' = members
         /\ ReceiversNext(i)
              = RoomMembers(RoomOf(Or(tasks'[i].env.instance, Str("unknown"))))]_vars

\* There was a single join request.  The envelope of a later event was
\* emitted while its room was empty, so the room was empty when the earlier
\* event arrived; the socket joined after that, and the envelope of the
\* earlier event, emitted afterwards, reached it.
C32_Witness ==
  \E k \in 1..Len(emits), l \in 1..Len(emits), c \in Clients :
    /\ joinCount = 1
    /\ k < l
    /\ emits[k].room = emits[l].room
    /\ tasks[emits[k].task].ev > tasks[emits[l].task].ev
    /\ emits[k].to = {}
    /\ emits[l].to = {c}
    /\ tasks[emits[l].task].posts # <<>>

====
